---- MODULE Spec2Model ----
(***************************************************************************)
(* Model of the ML vector blob codec (as_ml_vector.c / as_ml_vector.h) and *)
(* of the version utility (as_version.c) of the Aerospike C client.        *)
(*                                                                         *)
(* Memory is modelled at byte level: a buffer is a sequence of bytes       *)
(* (0..255).  A uint32_t is a pair <<hi, lo>> of 16-bit halves, so that    *)
(* all 32-bit arithmetic keeps its width (it wraps modulo 2^32).           *)
(***************************************************************************)
EXTENDS Integers, Sequences, FiniteSets, TLC

VARIABLES
    vector,      \* the caller's as_vector handed to serialize
    bytes,       \* the caller's as_bytes (the blob)
    link,        \* history: where `vector` and `bytes` come from
    out_vector,  \* the as_vector deserialize writes to
    out_type,    \* the as_ml_vector_element_type deserialize writes to
    call,        \* the last codec call: operation, arguments, return value
    ver,         \* the caller's as_version
    ver2,        \* a second as_version, compared with ver
    ver3,        \* a third as_version, compared with ver and ver2
    text,        \* the caller's character buffer (a C string)
    vcall        \* the last version call: operation, arguments, return value

\* The state of the vector codec.
cvars == <<vector, bytes, link, out_vector, out_type, call>>

\* The state of the version utility.
vvars == <<ver, ver2, ver3, text, vcall>>

vars == <<cvars, vvars>>

\* ------------------------------------------------------------------------
\* Bounds of the model
\* ------------------------------------------------------------------------

\* Largest element count of a vector built by the constructors.
MaxCount == 2

\* ------------------------------------------------------------------------
\* Program constants
\* ------------------------------------------------------------------------

AS_ML_VECTOR_MAGIC_NUMBER == 1447379796

AS_ML_VECTOR_VERSION == 1

AS_ML_VECTOR_FLOAT32 == 1

AS_ML_VECTOR_FLOAT64 == 2

AS_ML_VECTOR_INT32 == 3

AS_ML_VECTOR_INT64 == 4

\* Size of the blob header: magic, version, count, type.
HeaderSize == 16

AEROSPIKE_OK == "AEROSPIKE_OK"

AEROSPIKE_ERR_PARAM == "AEROSPIKE_ERR_PARAM"

AEROSPIKE_ERR_CLIENT == "AEROSPIKE_ERR_CLIENT"

\* Outcome of a call whose undefined behaviour ended the process.
CRASHED == "CRASHED"

\* ------------------------------------------------------------------------
\* 32-bit unsigned arithmetic
\* ------------------------------------------------------------------------

Half == 256 * 256

\* The uint32_t holding the (small) natural number n.
U32(n) == <<(n \div Half) % Half, n % Half>>

\* uint32_t * uint32_t for a small right operand, modulo 2^32.
U32Mul(a, k) == <<(a[1] * k + (a[2] * k) \div Half) % Half, (a[2] * k) % Half>>

\* uint32_t + uint32_t, modulo 2^32.
U32Add(a, b) == <<(a[1] + b[1] + (a[2] + b[2]) \div Half) % Half, (a[2] + b[2]) % Half>>

\* TRUE when the uint32_t is below 2^16, so that its value is a[2].
U32Small(a) == a[1] = 0

\* Mutant: the value is stored without the swap, on a little-endian host.
StoreLittleEndian32(x) == <<x[2] % 256, x[2] \div 256, x[1] % 256, x[1] \div 256>>

\* The four bytes in memory after  *(uint32_t*)p = cf_swap_to_be32(x).
cf_swap_to_be32(x) == <<x[1] \div 256, x[1] % 256, x[2] \div 256, x[2] % 256>>

\* cf_swap_from_be32(*(uint32_t*)p) for the four bytes b at p.
cf_swap_from_be32(b) == <<b[1] * 256 + b[2], b[3] * 256 + b[4]>>

\* ------------------------------------------------------------------------
\* as_vector
\* ------------------------------------------------------------------------

\* A vector the caller has not initialised.
NoVector == [init |-> FALSE, has_list |-> FALSE, item_size |-> 0, size |-> U32(0), list |-> <<>>, oob |-> FALSE]

\* as_vector_init(vector, item_size, capacity): empty, with storage.
as_vector_init(item_size, has_list) == [init |-> TRUE, has_list |-> has_list, item_size |-> item_size, size |-> U32(0), list |-> <<>>, oob |-> FALSE]

\* as_vector_append(vector, value): copies item_size bytes to the end.
as_vector_append(v, value) == [v EXCEPT !.size = U32Add(v.size, U32(1)), !.list = v.list \o value]

RECURSIVE AppendAll(_, _, _)
\* The loop  for (i = 0; i < count; i++) as_vector_append(vector, &data[i]).
AppendAll(v, data, i) == IF i > Len(data) THEN v ELSE AppendAll(as_vector_append(v, data[i]), data, i + 1)

\* ------------------------------------------------------------------------
\* as_bytes
\* ------------------------------------------------------------------------

\* An as_bytes with no buffer (value == NULL).
NoBytes == [has_value |-> FALSE, value |-> <<>>, size |-> U32(0), free |-> FALSE]

\* as_bytes_init_wrap(bytes, buffer, size, free).
as_bytes_init_wrap(buffer, size, free) == [has_value |-> TRUE, value |-> buffer, size |-> size, free |-> free]

\* ------------------------------------------------------------------------
\* Vector codec
\* ------------------------------------------------------------------------

\* The element type tags, as uint32_t values.
ElementTypes == {U32(AS_ML_VECTOR_FLOAT32), U32(AS_ML_VECTOR_FLOAT64), U32(AS_ML_VECTOR_INT32), U32(AS_ML_VECTOR_INT64)}

\* Mutant: the 8-byte types are given the 4-byte size.
ElementSizeAlwaysFour(element_type) == IF element_type \in ElementTypes THEN 4 ELSE 0

as_ml_vector_element_size(element_type) ==
    CASE element_type = U32(AS_ML_VECTOR_FLOAT32) -> 4
      [] element_type = U32(AS_ML_VECTOR_INT32) -> 4
      [] element_type = U32(AS_ML_VECTOR_FLOAT64) -> 8
      [] element_type = U32(AS_ML_VECTOR_INT64) -> 8
      [] OTHER -> 0

\* The common body of the four constructors; width is sizeof(element).
\* data is the caller's array as a sequence of elements, each `width` bytes.
VectorInitBody(v, has_vector, has_data, data, count, width) ==
    IF ~has_vector \/ ~has_data \/ count = 0
    THEN [status |-> AEROSPIKE_ERR_PARAM, vector |-> v]
    ELSE [status |-> AEROSPIKE_OK,
          vector |-> AppendAll(as_vector_init(width, TRUE), SubSeq(data, 1, count), 1)]

as_ml_vector_init_float32(v, has_vector, has_data, data, count) ==
    VectorInitBody(v, has_vector, has_data, data, count, 4)

as_ml_vector_init_float64(v, has_vector, has_data, data, count) ==
    VectorInitBody(v, has_vector, has_data, data, count, 8)

as_ml_vector_init_int32(v, has_vector, has_data, data, count) ==
    VectorInitBody(v, has_vector, has_data, data, count, 4)

as_ml_vector_init_int64(v, has_vector, has_data, data, count) ==
    VectorInitBody(v, has_vector, has_data, data, count, 8)

\* The 16-byte header written by serialize.
SerializeHeader(size, element_type) ==
    cf_swap_to_be32(U32(AS_ML_VECTOR_MAGIC_NUMBER)) \o cf_swap_to_be32(U32(AS_ML_VECTOR_VERSION))
        \o cf_swap_to_be32(size) \o cf_swap_to_be32(element_type)

\* memcpy(p, vector->list, data_size) for a data_size below 2^16.
SerializePayload(v, data_size) == SubSeq(v.list, 1, data_size[2])

\* Returns the status, the bytes object after the call and whether malloc
\* was called.  malloc_ok is whether malloc returns a buffer.
as_ml_vector_serialize(v, has_vector, element_type, b, has_bytes, malloc_ok) ==
    LET element_size == as_ml_vector_element_size(element_type)
        data_size == U32Mul(v.size, element_size)
        total_size == U32Add(U32(HeaderSize), data_size)
        buffer == SerializeHeader(v.size, element_type) \o SerializePayload(v, data_size)
    IN  IF ~has_vector \/ ~has_bytes \/ ~v.has_list \/ v.size = U32(0)
        THEN [status |-> AEROSPIKE_ERR_PARAM, bytes |-> b, malloced |-> FALSE]
        ELSE IF element_size = 0
        THEN [status |-> AEROSPIKE_ERR_PARAM, bytes |-> b, malloced |-> FALSE]
        ELSE IF v.item_size # element_size
        THEN [status |-> AEROSPIKE_ERR_PARAM, bytes |-> b, malloced |-> FALSE]
        ELSE IF ~malloc_ok
        THEN [status |-> AEROSPIKE_ERR_CLIENT, bytes |-> b, malloced |-> TRUE]
        ELSE [status |-> AEROSPIKE_OK, bytes |-> as_bytes_init_wrap(buffer, total_size, TRUE), malloced |-> TRUE]

\* The four bytes at offset off (0-based) of a buffer.
Field(value, off) == SubSeq(value, off + 1, off + 4)

\* TRUE when the loop of deserialize reads only bytes of the blob: every
\* element i < element_count at data_ptr + i * element_size lies inside it.
ReadsInside(value, element_count, element_size) ==
    U32Small(element_count) /\ HeaderSize + element_count[2] * element_size <= Len(value)

\* What malloc(n) can return for as_vector_init: a buffer, or, for n = 0,
\* a buffer or NULL.
VectorStorage(capacity) == IF capacity = U32(0) THEN {TRUE, FALSE} ELSE {TRUE}

\* Mutant: the copy loop starts at the start of the blob, not after the header.
DecodedVectorFromStart(value, element_size, element_count, has_list) ==
    [as_vector_init(element_size, has_list) EXCEPT
        !.size = element_count,
        !.list = SubSeq(value, 1, element_count[2] * element_size)]

\* The vector after as_vector_init and the appends of the in-bounds copy loop.
DecodedVector(value, element_size, element_count, has_list) ==
    [as_vector_init(element_size, has_list) EXCEPT
        !.size = element_count,
        !.list = SubSeq(value, HeaderSize + 1, HeaderSize + element_count[2] * element_size)]

\* The outcomes of the copy loop when it reads past the end of the blob
\* (undefined behaviour): the process dies, or the call returns a vector
\* holding whatever lay behind the blob.
OutOfBoundsOutcomes(value, element_size, element_count, elem_type, t) ==
    LET garbage == [as_vector_init(element_size, TRUE) EXCEPT
                       !.size = element_count,
                       !.list = SubSeq(value, HeaderSize + 1, Len(value)),
                       !.oob = TRUE]
    IN  { [status |-> CRASHED, vector |-> garbage, element_type |-> t],
          [status |-> AEROSPIKE_OK, vector |-> garbage, element_type |-> elem_type] }

\* Mutant: the vector is initialised on entry, before the blob is validated.
FailedDecodeAfterInit(status, v, t) == {[status |-> status, vector |-> as_vector_init(0, FALSE), element_type |-> t]}

\* A return before anything is written: the caller's vector v and element
\* type t are what they were before the call.
FailedDecode(status, v, t) == {[status |-> status, vector |-> v, element_type |-> t]}

\* The set of possible results: status, the caller's vector and element
\* type after the call.  v and t are their values before the call.
as_ml_vector_deserialize(b, has_bytes, v, has_vector, t, has_type) ==
    LET unchanged(status) == FailedDecode(status, v, t)
        magic == cf_swap_from_be32(Field(b.value, 0))
        version == cf_swap_from_be32(Field(b.value, 4))
        element_count == cf_swap_from_be32(Field(b.value, 8))
        element_type_raw == cf_swap_from_be32(Field(b.value, 12))
        elem_type == element_type_raw
        element_size == as_ml_vector_element_size(elem_type)
        expected_data_size == U32Mul(element_count, element_size)
    IN  IF ~has_bytes \/ ~has_vector \/ ~has_type \/ ~b.has_value
           \/ (U32Small(b.size) /\ b.size[2] < HeaderSize)
        THEN unchanged(AEROSPIKE_ERR_PARAM)
        ELSE IF magic # U32(AS_ML_VECTOR_MAGIC_NUMBER)
        THEN unchanged(AEROSPIKE_ERR_PARAM)
        ELSE IF version # U32(AS_ML_VECTOR_VERSION)
        THEN unchanged(AEROSPIKE_ERR_PARAM)
        ELSE IF element_size = 0
        THEN unchanged(AEROSPIKE_ERR_PARAM)
        ELSE IF b.size # U32Add(U32(HeaderSize), expected_data_size)
        THEN unchanged(AEROSPIKE_ERR_PARAM)
        ELSE IF ReadsInside(b.value, element_count, element_size)
        THEN { [status |-> AEROSPIKE_OK,
                vector |-> DecodedVector(b.value, element_size, element_count, has_list),
                element_type |-> elem_type] : has_list \in VectorStorage(element_count) }
        ELSE OutOfBoundsOutcomes(b.value, element_size, element_count, elem_type, t)

\* ------------------------------------------------------------------------
\* Version utility
\* ------------------------------------------------------------------------
\* A C string is a sequence of characters, each a one-character string
\* ("VT" stands for the vertical tab); the terminating NUL is implicit.

\* sizeof(buf) in as_version_from_string.
BufSize == 64

\* USHRT_MAX + 1: the values of an unsigned short are 0..65535.
UShortRange == 256 * 256

Version(major, minor, patch, build) == [major |-> major, minor |-> minor, patch |-> patch, build |-> build]

\* isdigit
IsDigit(c) == c \in {"0", "1", "2", "3", "4", "5", "6", "7", "8", "9"}

\* isspace, in the C locale
IsSpace(c) == c \in {" ", "\t", "\n", "VT", "\f", "\r"}

DigitValue(c) ==
    CASE c = "0" -> 0 [] c = "1" -> 1 [] c = "2" -> 2 [] c = "3" -> 3 [] c = "4" -> 4
      [] c = "5" -> 5 [] c = "6" -> 6 [] c = "7" -> 7 [] c = "8" -> 8 [] c = "9" -> 9

DigitChar(d) ==
    CASE d = 0 -> "0" [] d = 1 -> "1" [] d = 2 -> "2" [] d = 3 -> "3" [] d = 4 -> "4"
      [] d = 5 -> "5" [] d = 6 -> "6" [] d = 7 -> "7" [] d = 8 -> "8" [] d = 9 -> "9"

RECURSIVE SkipSpace(_, _)
\* The loop  while (*str && isspace(*str)) str++  : the index it stops at.
SkipSpace(str, i) == IF i <= Len(str) /\ IsSpace(str[i]) THEN SkipSpace(str, i + 1) ELSE i

\* The loop that copies digits and dots to buf, from index i of str, until
\* the end of str, a full buf or the first other character: it stops at
\* the first index `stop` where its condition fails or it breaks.
CopyNumeric(str, i, buf) ==
    LET room == BufSize - 1 - Len(buf)
        last == IF Len(str) < i + room - 1 THEN Len(str) ELSE i + room - 1
        copied(k) == IsDigit(str[k]) \/ str[k] = "."
        stop == CHOOSE j \in i..(last + 1) :
                    /\ \A k \in i..(j - 1) : copied(k)
                    /\ j = last + 1 \/ ~copied(j)
    IN  buf \o SubSeq(str, i, stop - 1)

\* The index after the digits that start at index i of buf.
DigitsEnd(buf, i) ==
    CHOOSE j \in i..(Len(buf) + 1) :
        /\ \A k \in i..(j - 1) : IsDigit(buf[k])
        /\ j = Len(buf) + 1 \/ ~IsDigit(buf[j])

\* 10^e modulo 2^16 at index e + 1, for e in 0..15; every higher power of
\* ten is a multiple of 2^16.
TenToThe == <<1, 10, 100, 1000, 10000, 34464, 16960, 38528, 57600, 51712, 58368, 59392, 4096, 40960, 16384, 32768>>

RECURSIVE WeightedSum(_, _, _)
\* The sum of the digits buf[i..j-1] (at most 16), each times its power of
\* ten modulo 2^16.
WeightedSum(buf, i, j) ==
    IF i >= j THEN 0 ELSE DigitValue(buf[i]) * TenToThe[j - i] + WeightedSum(buf, i + 1, j)

\* The number written by buf[i..j-1], as its value modulo 2^16 (which its
\* last 16 digits decide) and whether it is above USHRT_MAX (a digit other
\* than 0 before the last five, or the last five above it).
ScanDigits(buf, i, j) ==
    LET low == IF j - i > 16 THEN j - 16 ELSE i
        five == IF j - i > 5 THEN j - 5 ELSE i
    IN  [value |-> WeightedSum(buf, low, j) % UShortRange,
         big |-> (\E k \in i..(five - 1) : buf[k] # "0") \/ WeightedSum(buf, five, j) >= UShortRange]

RECURSIVE ScanItems(_, _, _)
\* sscanf(buf, "%hu.%hu.%hu.%hu", ...) from index i with `items` already
\* converted: a '.' must come before every conversion but the first, and
\* a conversion takes the longest run of digits, which must not be empty.
ScanItems(buf, i, items) ==
    LET j == IF items = <<>> THEN i ELSE i + 1
        dot == items = <<>> \/ (i <= Len(buf) /\ buf[i] = ".")
    IN  IF Len(items) = 4 \/ ~dot \/ j > Len(buf) \/ ~IsDigit(buf[j])
        THEN items
        ELSE ScanItems(buf, DigitsEnd(buf, j),
                       Append(items, ScanDigits(buf, j, DigitsEnd(buf, j))))

\* The return value of sscanf: the number of conversions, or EOF when the
\* input ends before the first one.
ScanCount(buf, items) == IF buf = <<>> THEN -1 ELSE Len(items)

\* What a %hu conversion stores: the number, or, for a number above
\* USHRT_MAX (undefined behaviour), its low 16 bits or USHRT_MAX.
Stored(item) == IF item.big THEN {item.value, UShortRange - 1} ELSE {item.value}

\* Mutant: a version of two components is accepted.
RequiredComponentsTwo == 3 - 1

\* The number of components as_version_from_string requires.
RequiredComponents == 3

\* The set of possible results: the return value and the caller's version
\* after the call.  v is the version before the call.
as_version_from_string(v, str) ==
    LET buf == CopyNumeric(str, SkipSpace(str, 1), <<>>)
        items == ScanItems(buf, 1, <<>>)
        rv == ScanCount(buf, items)
        written(k, old) == IF k <= Len(items) THEN Stored(items[k]) ELSE {old}
    IN  { [result |-> rv >= RequiredComponents,
           ver |-> Version(major, minor, patch, IF rv = 3 THEN 0 ELSE build)] :
            major \in written(1, v.major), minor \in written(2, v.minor),
            patch \in written(3, v.patch), build \in written(4, v.build) }

\* Mutant: the format pads every component with zeros to five digits.
ToDecimalPadded(n) ==
    <<DigitChar(n \div 10000), DigitChar((n \div 1000) % 10), DigitChar((n \div 100) % 10),
      DigitChar((n \div 10) % 10), DigitChar(n % 10)>>

RECURSIVE ToDecimal(_)
\* printf's %hu: the decimal digits of n, without padding.
ToDecimal(n) == IF n < 10 THEN <<DigitChar(n)>> ELSE Append(ToDecimal(n \div 10), DigitChar(n % 10))

\* The text of "%hu.%hu.%hu.%hu" for a version.
FormatVersion(v) ==
    ToDecimal(v.major) \o <<".">> \o ToDecimal(v.minor) \o <<".">> \o ToDecimal(v.patch) \o <<".">> \o ToDecimal(v.build)

\* snprintf(str, size, ...): at most size - 1 characters are written; with
\* size 0 str is left as it was.
as_version_to_string(v, str, size) ==
    LET full == FormatVersion(v)
    IN  IF size = 0 THEN str
        ELSE IF Len(full) <= size - 1 THEN full
        ELSE SubSeq(full, 1, size - 1)

\* Mutant: the difference is computed in 16 bits (a short).
Diff16(a, b) == ((a - b + UShortRange + UShortRange \div 2) % UShortRange) - UShortRange \div 2

\* The difference of two unsigned shorts, promoted to int.
Diff(a, b) == a - b

as_version_compare(ver1, ver_2) ==
    IF ver1.major # ver_2.major THEN Diff(ver1.major, ver_2.major)
    ELSE IF ver1.minor # ver_2.minor THEN Diff(ver1.minor, ver_2.minor)
    ELSE IF ver1.patch # ver_2.patch THEN Diff(ver1.patch, ver_2.patch)
    ELSE IF ver1.build # ver_2.build THEN Diff(ver1.build, ver_2.build)
    ELSE 0

\* ------------------------------------------------------------------------
\* Inputs
\* ------------------------------------------------------------------------

\* Element number e of width w, as its bytes in memory (all distinct).
Element(e, w) == [i \in 1..w |-> 16 * e + i]

\* The caller's input arrays of MaxCount elements of width w: the elements
\* 1, 2, ... in ascending and in descending order.
DataArrays(w) == {[i \in 1..MaxCount |-> Element(i, w)], [i \in 1..MaxCount |-> Element(MaxCount + 1 - i, w)]}

\* The element type arguments a caller passes: the four tags, and 0 and 5.
DeclaredTypes == {U32(n) : n \in 0..5}

\* The magic field with byte i (1..4) inverted.
FlipByte(value, i) == [value EXCEPT ![i] = 255 - value[i]]

\* Magic fields of received blobs: the constant, and each one-byte flip.
MagicFields ==
    LET m == cf_swap_to_be32(U32(AS_ML_VECTOR_MAGIC_NUMBER))
    IN  {m} \cup {FlipByte(m, i) : i \in 1..4}

\* Version fields of received blobs: 1, 0, 2 and 1 stored little-endian.
VersionFields == {cf_swap_to_be32(U32(n)) : n \in 0..2} \cup {<<1, 0, 0, 0>>}

\* Count fields of received blobs: small counts, and counts whose product
\* with an element size of 4 or 8 passes 2^32.
CountFields ==
    {cf_swap_to_be32(U32(n)) : n \in 0..MaxCount}
        \cup {<<64, 0, 0, 0>>, <<64, 0, 0, 1>>, <<32, 0, 0, 0>>, <<128, 0, 0, 1>>}

TypeFields == {cf_swap_to_be32(t) : t \in DeclaredTypes}

\* Longest payload of a received blob.
MaxPayload == 8 * MaxCount + 1

\* The n payload bytes of a received blob.
PayloadBytes(n) == [i \in 1..n |-> 16 + i]

\* What follows the version field in the blobs whose magic or version is
\* bad: a well-formed rest, one with a bad type tag, one a byte short.
RestOfBlob ==
    LET one == cf_swap_to_be32(U32(1))
    IN  { one \o cf_swap_to_be32(U32(AS_ML_VECTOR_FLOAT32)) \o PayloadBytes(4),
          one \o cf_swap_to_be32(U32(0)) \o PayloadBytes(4),
          one \o cf_swap_to_be32(U32(AS_ML_VECTOR_FLOAT32)) \o PayloadBytes(3) }

\* The blobs a caller may receive from storage.  deserialize checks the
\* fields in order, so the blobs are: a bad magic before any version and
\* rest; the magic before a bad version and any rest; the magic and the
\* version before every count, type tag and payload length; and every
\* buffer shorter than a header.
ReceivedBlobs ==
    LET magic == cf_swap_to_be32(U32(AS_ML_VECTOR_MAGIC_NUMBER))
        version == cf_swap_to_be32(U32(AS_ML_VECTOR_VERSION))
    IN  {m \o v \o r : m \in MagicFields \ {magic}, v \in VersionFields, r \in RestOfBlob}
        \cup {magic \o v \o r : v \in VersionFields \ {version}, r \in RestOfBlob}
        \cup {magic \o version \o c \o t \o PayloadBytes(n) :
                c \in CountFields, t \in TypeFields, n \in 0..MaxPayload}
        \cup {SubSeq(SerializeHeader(U32(1), U32(AS_ML_VECTOR_FLOAT32)), 1, n) : n \in 0..(HeaderSize - 1)}

\* Most dot-separated fields of an input version string.
MaxFields == 5

\* The fields of input version strings: empty, 0, USHRT_MAX, USHRT_MAX + 1.
FieldTexts == {<<>>, <<"0">>, <<"6", "5", "5", "3", "5">>, <<"6", "5", "5", "3", "6">>}

RECURSIVE JoinDots(_, _)
\* The fields f[i..], joined by dots.
JoinDots(f, i) ==
    IF i > Len(f) THEN <<>>
    ELSE IF i = Len(f) THEN f[i]
    ELSE f[i] \o <<".">> \o JoinDots(f, i + 1)

\* The character c, n times.
Repeat(c, n) == [i \in 1..n |-> c]

\* The strings of the documentation and of the tests, and strings that
\* reach the end of the 63-character buffer.
ExampleStrings ==
    { <<"7", ".", "1", ".", "0", ".", "2">>,
      <<"7", ".", "1", ".", "0", ".", "2", "-", "1", "-", "g", "a", "b", "c", "d", "e", "f">>,
      <<"7", ".", "1", ".", "0">>,
      <<" ", " ", "7", ".", "1", ".", "0">>,
      <<"7", ".", "1">>,
      <<"7">>,
      <<>>,
      <<"a", "b", "c">>,
      <<"\n", "VT", "\f", "\r", "1", ".", "2", ".", "3", ".", "4", " ", "5">>,
      <<"7", ".", "2", ".", "0", ".", "0">>,
      <<"1", "0", ".", "2", "0", ".", "3", "0", ".", "4", "0", ".", "5", "0">>,
      <<"0", "7", ".", "1", ".", "0", ".", "2">>,
      Repeat("0", 58) \o <<"7", ".", "1", ".", "0">>,
      Repeat("0", 59) \o <<"7", ".", "1", ".", "0">>,
      Repeat("0", 60) \o <<"7", ".", "1", ".", "0">>,
      <<"7", ".", "1", ".">> \o Repeat("9", 70) }

\* The input strings of the parser: white space, up to MaxFields fields
\* joined by dots, a suffix; and the examples.
InputStrings ==
    { pre \o JoinDots(f, 1) \o suf :
        pre \in {<<>>, <<" ", "\t">>},
        f \in UNION {[1..k -> FieldTexts] : k \in 0..MaxFields},
        suf \in {<<>>, <<"-", "1", "-", "g", "a", "b", "c", "d", "e", "f">>} }
    \cup ExampleStrings

\* The component values of directly assigned versions.
FieldVersions ==
    {Version(a, b, c, d) : a, b, c, d \in {0, 1, UShortRange - 1}}

ThirdVersions ==
    {Version(a, b, c, d) : a, b, c, d \in {0, UShortRange - 1}}

\* snprintf sizes: no buffer, a short one, one that holds any version.
BufferSizes == {0, 8, 24}

\* ------------------------------------------------------------------------
\* State machine
\* ------------------------------------------------------------------------

NoVCall == [op |-> "none", result |-> FALSE, str |-> <<>>, size |-> 0, prev |-> Version(0, 0, 0, 0),
            cmp |-> <<0, 0, 0, 0>>]

\* History of the objects: the constructor that built `vector` (its type
\* tag, 0 for none), whether `bytes` is the untouched result of serializing
\* `vector`, and the element type that serialize call declared.
NoLink == [built |-> U32(0), state |-> "none", element_type |-> U32(0)]

NoCall == [op |-> "none", status |-> AEROSPIKE_OK, element_type |-> U32(0), count |-> 0,
           has_vector |-> FALSE, has_data |-> FALSE, has_bytes |-> FALSE, has_out |-> FALSE,
           malloc |-> "none"]

Init ==
    /\ vector = NoVector
    /\ bytes = NoBytes
    /\ link = NoLink
    /\ out_vector = NoVector
    /\ out_type = U32(0)
    /\ call = NoCall
    /\ ver = Version(0, 0, 0, 0)
    /\ ver2 = Version(0, 0, 0, 0)
    /\ ver3 = Version(0, 0, 0, 0)
    /\ text = <<>>
    /\ vcall = NoVCall

Alive == call.status # CRASHED

\* A constructor call, on a vector not yet initialised.
InitCall(element_type, has_vector, has_data, data, count, r) ==
    /\ Alive
    /\ ~vector.init
    /\ vector' = r.vector
    /\ call' = [NoCall EXCEPT !.op = "init", !.status = r.status, !.element_type = element_type,
                              !.count = count, !.has_vector = has_vector, !.has_data = has_data]
    /\ link' = [link EXCEPT !.built = IF r.status = AEROSPIKE_OK THEN element_type ELSE U32(0)]
    /\ UNCHANGED <<bytes, out_vector, out_type>>
    /\ UNCHANGED vvars

InitFloat32 ==
    \E has_vector, has_data \in BOOLEAN, count \in 0..MaxCount, data \in DataArrays(4) :
        InitCall(U32(AS_ML_VECTOR_FLOAT32), has_vector, has_data, data, count,
                 as_ml_vector_init_float32(vector, has_vector, has_data, data, count))

InitFloat64 ==
    \E has_vector, has_data \in BOOLEAN, count \in 0..MaxCount, data \in DataArrays(8) :
        InitCall(U32(AS_ML_VECTOR_FLOAT64), has_vector, has_data, data, count,
                 as_ml_vector_init_float64(vector, has_vector, has_data, data, count))

InitInt32 ==
    \E has_vector, has_data \in BOOLEAN, count \in 0..MaxCount, data \in DataArrays(4) :
        InitCall(U32(AS_ML_VECTOR_INT32), has_vector, has_data, data, count,
                 as_ml_vector_init_int32(vector, has_vector, has_data, data, count))

InitInt64 ==
    \E has_vector, has_data \in BOOLEAN, count \in 0..MaxCount, data \in DataArrays(8) :
        InitCall(U32(AS_ML_VECTOR_INT64), has_vector, has_data, data, count,
                 as_ml_vector_init_int64(vector, has_vector, has_data, data, count))

\* The caller builds a vector itself with as_vector_init and as_vector_append:
\* any item size, with or without storage, n items.
AssembleVector ==
    \E item_size \in {2, 4, 8}, has_list \in BOOLEAN, n \in 0..MaxCount :
        /\ Alive
        /\ ~vector.init
        /\ has_list \/ n = 0
        /\ vector' = AppendAll(as_vector_init(item_size, has_list),
                               [i \in 1..n |-> Element(i, item_size)], 1)
        /\ call' = [NoCall EXCEPT !.op = "assemble", !.count = n]
        /\ UNCHANGED <<bytes, link, out_vector, out_type>>
        /\ UNCHANGED vvars

\* as_ml_vector_serialize(&vector or NULL, element_type, &bytes or NULL),
\* called before the blob is stored and before anything is decoded.
Serialize ==
    \E has_vector \in (IF vector.init THEN BOOLEAN ELSE {FALSE}), element_type \in DeclaredTypes,
       has_bytes, malloc_ok \in BOOLEAN :
        LET r == as_ml_vector_serialize(vector, has_vector, element_type, bytes, has_bytes, malloc_ok)
        IN  /\ Alive
            /\ link.state # "tampered"
            /\ ~out_vector.init
            /\ bytes' = r.bytes
            /\ link' = IF r.status = AEROSPIKE_OK
                       THEN [link EXCEPT !.state = "serialized", !.element_type = element_type]
                       ELSE link
            /\ call' = [NoCall EXCEPT !.op = "serialize", !.status = r.status,
                                      !.element_type = element_type, !.has_vector = has_vector,
                                      !.has_bytes = has_bytes,
                                      !.malloc = IF ~r.malloced THEN "none"
                                                 ELSE IF malloc_ok THEN "ok" ELSE "failed"]
            /\ UNCHANGED <<vector, out_vector, out_type>>
            /\ UNCHANGED vvars

\* as_ml_vector_deserialize(&bytes or NULL, &out_vector or NULL, &out_type or NULL).
Deserialize ==
    \E has_bytes, has_vector, has_type \in BOOLEAN :
        \E r \in as_ml_vector_deserialize(bytes, has_bytes, out_vector, has_vector, out_type, has_type) :
            /\ Alive
            /\ out_vector' = r.vector
            /\ out_type' = r.element_type
            /\ call' = [NoCall EXCEPT !.op = "deserialize", !.status = r.status,
                                      !.has_bytes = has_bytes,
                                      !.has_out = has_vector /\ has_type]
            /\ UNCHANGED <<vector, bytes, link>>
            /\ UNCHANGED vvars

\* The stored blob loses its last k bytes.
Truncate ==
    \E k \in 1..Len(bytes.value) :
        /\ Alive
        /\ link.state = "serialized"
        /\ bytes' = [bytes EXCEPT !.value = SubSeq(bytes.value, 1, Len(bytes.value) - k),
                                  !.size = U32(Len(bytes.value) - k)]
        /\ link' = [link EXCEPT !.state = "tampered"]
        /\ call' = [NoCall EXCEPT !.op = "tamper"]
        /\ UNCHANGED <<vector, out_vector, out_type>>
        /\ UNCHANGED vvars

\* One byte of the stored blob's magic field is inverted.
FlipMagicByte ==
    \E i \in 1..4 :
        /\ Alive
        /\ link.state = "serialized"
        /\ bytes' = [bytes EXCEPT !.value = FlipByte(bytes.value, i)]
        /\ link' = [link EXCEPT !.state = "tampered"]
        /\ call' = [NoCall EXCEPT !.op = "tamper"]
        /\ UNCHANGED <<vector, out_vector, out_type>>
        /\ UNCHANGED vvars

\* The stored blob's version field is overwritten.
SetVersion ==
    \E v \in VersionFields :
        /\ Alive
        /\ link.state = "serialized"
        /\ v # Field(bytes.value, 4)
        /\ bytes' = [bytes EXCEPT !.value = SubSeq(bytes.value, 1, 4) \o v \o SubSeq(bytes.value, 9, Len(bytes.value))]
        /\ link' = [link EXCEPT !.state = "tampered"]
        /\ call' = [NoCall EXCEPT !.op = "tamper"]
        /\ UNCHANGED <<vector, out_vector, out_type>>
        /\ UNCHANGED vvars

\* as_vector_destroy and as_bytes_destroy of everything; a new round (or,
\* after a crash, a new process) starts.
Destroy ==
    /\ <<vector, bytes, link, out_vector, out_type, call>> # <<NoVector, NoBytes, NoLink, NoVector, U32(0), NoCall>>
    /\ vector' = NoVector
    /\ bytes' = NoBytes
    /\ link' = NoLink
    /\ out_vector' = NoVector
    /\ out_type' = U32(0)
    /\ call' = NoCall
    /\ UNCHANGED vvars

Next ==
    \/ InitFloat32
    \/ InitFloat64
    \/ InitInt32
    \/ InitInt64
    \/ AssembleVector
    \/ Serialize
    \/ Deserialize
    \/ Truncate
    \/ FlipMagicByte
    \/ SetVersion
    \/ Destroy

\* The encode side: build, serialize, store, corrupt, deserialize.
Spec == Init /\ [][Next]_vars

\* A blob arrives from storage in an as_bytes that holds none.
ReceiveBlob ==
    /\ Alive
    /\ ~bytes.has_value
    /\ \E b \in ReceivedBlobs :
        /\ bytes' = as_bytes_init_wrap(b, U32(Len(b)), FALSE)
        /\ link' = [NoLink EXCEPT !.state = "received"]
        /\ call' = [NoCall EXCEPT !.op = "receive"]
        /\ UNCHANGED <<vector, out_vector, out_type>>
        /\ UNCHANGED vvars

\* as_bytes_destroy: the blob is dropped, the decoded outputs are kept.
DestroyBytes ==
    /\ Alive
    /\ bytes.has_value
    /\ bytes' = NoBytes
    /\ link' = NoLink
    /\ call' = [NoCall EXCEPT !.op = "destroy"]
    /\ UNCHANGED <<vector, out_vector, out_type>>
    /\ UNCHANGED vvars

NextDecode ==
    \/ ReceiveBlob
    \/ Deserialize
    \/ DestroyBytes
    \/ Destroy

\* The decode side: arbitrary received blobs are deserialized.
SpecDecode == Init /\ [][NextDecode]_vars

\* The caller assigns the fields of ver directly.
SetFields ==
    /\ vcall.op = "none"
    /\ \E v \in FieldVersions :
        /\ ver' = v
        /\ vcall' = [NoVCall EXCEPT !.op = "set"]
        /\ UNCHANGED <<ver2, ver3, text>>
        /\ UNCHANGED cvars

\* as_version_from_string(&ver, str) on an input string.
ParseInput ==
    /\ vcall.op = "none"
    /\ \E str \in InputStrings :
        \E r \in as_version_from_string(ver, str) :
            /\ text' = str
            /\ ver' = r.ver
            /\ vcall' = [NoVCall EXCEPT !.op = "from_string", !.result = r.result, !.str = str, !.prev = ver]
            /\ UNCHANGED <<ver2, ver3>>
            /\ UNCHANGED cvars

\* as_version_from_string(&ver, str) on a version that already holds
\* assigned components: an explicit re-parse of an example string.
ParseAssigned ==
    /\ vcall.op = "set"
    /\ \E str \in ExampleStrings :
        \E r \in as_version_from_string(ver, str) :
            /\ text' = str
            /\ ver' = r.ver
            /\ vcall' = [NoVCall EXCEPT !.op = "from_string", !.result = r.result, !.str = str, !.prev = ver]
            /\ UNCHANGED <<ver2, ver3>>
            /\ UNCHANGED cvars

\* as_version_to_string(&ver, text, size) of an assigned or parsed version.
RenderVersion ==
    /\ vcall.op = "set" \/ (vcall.op = "from_string" /\ vcall.result)
    /\ \E size \in BufferSizes :
        /\ text' = as_version_to_string(ver, text, size)
        /\ vcall' = [vcall EXCEPT !.op = "to_string", !.size = size, !.prev = ver]
        /\ UNCHANGED <<ver, ver2, ver3>>
        /\ UNCHANGED cvars

\* as_version_from_string(&ver, text) on the text to_string has written.
ParseText ==
    /\ vcall.op = "to_string"
    /\ \E r \in as_version_from_string(ver, text) :
        /\ ver' = r.ver
        /\ vcall' = [vcall EXCEPT !.op = "reparse", !.result = r.result, !.prev = ver]
        /\ UNCHANGED <<ver2, ver3, text>>
        /\ UNCHANGED cvars

\* as_version_compare on ver, ver2 and ver3, in the four orders the
\* ordering laws need.
Compare ==
    /\ vcall.op = "set"
    /\ \E b \in FieldVersions, c \in ThirdVersions :
        /\ ver2' = b
        /\ ver3' = c
        /\ vcall' = [NoVCall EXCEPT !.op = "compare",
                       !.cmp = <<as_version_compare(ver, b), as_version_compare(b, ver),
                                 as_version_compare(b, c), as_version_compare(ver, c)>>]
        /\ UNCHANGED <<ver, text>>
        /\ UNCHANGED cvars

\* The caller starts again with fresh objects.
ResetVersion ==
    /\ vcall.op # "none"
    /\ ver' = Version(0, 0, 0, 0)
    /\ ver2' = Version(0, 0, 0, 0)
    /\ ver3' = Version(0, 0, 0, 0)
    /\ text' = <<>>
    /\ vcall' = NoVCall
    /\ UNCHANGED cvars

NextVersion ==
    \/ SetFields
    \/ ParseInput
    \/ ParseAssigned
    \/ RenderVersion
    \/ ParseText
    \/ Compare
    \/ ResetVersion

\* The version utility: parse, render, compare.
SpecVersion == Init /\ [][NextVersion]_vars

\* ------------------------------------------------------------------------
\* Claims about the encode side (specification Spec)
\* ------------------------------------------------------------------------

\* sizeof of the element a type tag names, from the header's documentation.
WidthOf(t) == IF t \in {U32(1), U32(3)} THEN 4 ELSE 8

\* `vector` was built by the constructor of the element type t.
BuiltAs(t) == t \in ElementTypes /\ link.built = t

BigEndian(b) == ((b[1] * 256 + b[2]) * 256 + b[3]) * 256 + b[4]

SerializeMustReject(has_vector, v, t) ==
    \/ ~has_vector
    \/ ~v.has_list
    \/ v.size = U32(0)
    \/ t \notin {U32(1), U32(2), U32(3), U32(4)}
    \/ v.item_size # WidthOf(t)

\* C6: Serialize precondition rejection.  Given an output bytes object,
\* serialize fails with the invalid-argument error, calls no malloc and
\* leaves the bytes object as it was whenever the vector is absent or
\* empty, the declared type is outside 1..4 or the vector's item_size
\* differs from the type's element size; in every other case it allocates,
\* and succeeds when the allocation does.
SerializeRejection ==
    [][(call'.op = "serialize" /\ call'.has_bytes) =>
        IF SerializeMustReject(call'.has_vector, vector, call'.element_type)
        THEN call'.status = AEROSPIKE_ERR_PARAM /\ call'.malloc = "none" /\ bytes' = bytes
        ELSE /\ call'.malloc # "none"
             /\ call'.malloc = "ok" => call'.status = AEROSPIKE_OK /\ bytes'.has_value
             /\ call'.malloc = "failed" => call'.status = AEROSPIKE_ERR_CLIENT /\ bytes' = bytes]_vars

\* C6 witness: a width mismatch was rejected and the blob of an earlier
\* serialize is still in the bytes object.
SerializeRejectionWitness ==
    /\ call.op = "serialize"
    /\ call.status = AEROSPIKE_ERR_PARAM
    /\ call.has_vector /\ call.has_bytes
    /\ vector.has_list /\ vector.size # U32(0)
    /\ call.element_type \in ElementTypes
    /\ vector.item_size # WidthOf(call.element_type)
    /\ bytes.has_value
    /\ link.state = "serialized"

\* ------------------------------------------------------------------------
\* Claims about the decode side (specification SpecDecode)
\* ------------------------------------------------------------------------

\* The blob is present and at least a header long.
HasHeader(b) == b.has_value /\ Len(b.value) >= 16

MagicOk(b) == SubSeq(b.value, 1, 4) = <<86, 69, 67, 84>>

VersionOk(b) == SubSeq(b.value, 5, 8) = <<0, 0, 0, 1>>

TypeTagOk(b) == SubSeq(b.value, 13, 16) \in {<<0, 0, 0, n>> : n \in 1..4}

\* The blob's length is 16 + count * element_size, computed exactly: the
\* payload is a whole number of elements and the count field holds that
\* number (the blobs of the model are shorter than 2^16 bytes).
LengthOk(b) ==
    LET width == IF b.value[16] \in {1, 3} THEN 4 ELSE 8
        payload == Len(b.value) - 16
    IN  /\ payload % width = 0
        /\ b.value[9] = 0 /\ b.value[10] = 0
        /\ b.value[11] * 256 + b.value[12] = payload \div width

WellFormed(b) == HasHeader(b) /\ MagicOk(b) /\ VersionOk(b) /\ TypeTagOk(b) /\ LengthOk(b)

\* C3: Acceptance equals well-formedness.  Given its output arguments,
\* deserialize returns success if and only if the blob is present and
\* well-formed, with 16 + count * element_size computed without
\* wrap-around, and a successful decode reads only bytes of the blob.
\* Violated by the code: the 32-bit product wraps.
AcceptanceIsWellFormedness ==
    (call.op = "deserialize" /\ call.has_out) =>
        /\ call.status = AEROSPIKE_OK <=> (call.has_bytes /\ WellFormed(bytes))
        /\ call.status = AEROSPIKE_OK => ~out_vector.oob

\* C4: Count zero is never produced.  A constructor called with count 0
\* or without data fails with the invalid-argument error, and no
\* successful deserialize yields a vector of count 0.
\* Violated by the code: a bare header with count 0 is accepted.
CountZeroNeverProduced ==
    /\ (call.op = "init" /\ (call.count = 0 \/ ~call.has_data)) => call.status = AEROSPIKE_ERR_PARAM
    /\ (call.op = "deserialize" /\ call.status = AEROSPIKE_OK) => out_vector.size # U32(0)

\* The failure kind the specification assigns to a blob, the checks taken
\* in order; "none" for a well-formed blob.
ExpectedErrorKind(has_bytes, b) ==
    IF ~has_bytes \/ ~HasHeader(b) THEN "InvalidArgument"
    ELSE IF ~MagicOk(b) THEN "InvalidFormat"
    ELSE IF ~VersionOk(b) THEN "UnsupportedVersion"
    ELSE IF ~TypeTagOk(b) THEN "InvalidFormat"
    ELSE IF ~LengthOk(b) THEN "InvalidFormat"
    ELSE "none"

\* A failure kind is told apart by the status: two kinds never share one.
KindOfStatus(status) == IF status = AEROSPIKE_ERR_PARAM THEN "InvalidArgument" ELSE "other"

\* C5: Deserialize error kinds.  A failed deserialize reports the kind of
\* its failure: InvalidArgument for an absent or short blob, InvalidFormat
\* for a bad magic, UnsupportedVersion for a bad version, InvalidFormat for
\* a bad type tag or length; a bad-magic or bad-version blob never yields
\* the status of an absent or short one.
\* Violated by the code: every failure returns AEROSPIKE_ERR_PARAM.
DeserializeErrorKinds ==
    (call.op = "deserialize" /\ call.has_out /\ call.status \notin {AEROSPIKE_OK, CRASHED}) =>
        (ExpectedErrorKind(call.has_bytes, bytes) = "InvalidArgument"
            <=> KindOfStatus(call.status) = "InvalidArgument")

\* C10: No partial result from a failed decode.  Whenever deserialize
\* returns an error, the caller's output vector and output element type
\* are exactly as they were before the call.
NoPartialResult ==
    [][(call'.op = "deserialize" /\ call'.status \notin {AEROSPIKE_OK, CRASHED}) =>
        (out_vector' = out_vector /\ out_type' = out_type)]_vars

\* C10 witness: a malformed blob was refused while the outputs hold the
\* vector and type of an earlier decode.
NoPartialResultWitness ==
    /\ call.op = "deserialize"
    /\ call.status = AEROSPIKE_ERR_PARAM
    /\ call.has_bytes /\ call.has_out
    /\ HasHeader(bytes) /\ MagicOk(bytes) /\ VersionOk(bytes) /\ TypeTagOk(bytes)
    /\ out_vector.init
    /\ out_vector.size = U32(2)
    /\ out_type = U32(AS_ML_VECTOR_INT32)

\* ------------------------------------------------------------------------
\* Claims about the version utility (specification SpecVersion)
\* ------------------------------------------------------------------------

NumericChar(c) == IsDigit(c) \/ c = "."

\* s without its leading white space.
Stripped(s) ==
    LET k == CHOOSE k \in 1..(Len(s) + 1) :
                 /\ \A i \in 1..(k - 1) : IsSpace(s[i])
                 /\ k = Len(s) + 1 \/ ~IsSpace(s[k])
    IN  SubSeq(s, k, Len(s))

\* The longest prefix of t made only of digits and dots, at most 63 long.
NumericPrefix(t) ==
    LET most == IF Len(t) < 63 THEN Len(t) ELSE 63
        n == CHOOSE n \in 0..most :
                 /\ \A i \in 1..n : NumericChar(t[i])
                 /\ n = most \/ ~NumericChar(t[n + 1])
    IN  SubSeq(t, 1, n)

\* The positions of the dots of p.
Dots(p) == {i \in 1..Len(p) : p[i] = "."}

\* The position of the k-th dot of p: 0 for k = 0, Len(p) + 1 past the last.
NthDot(p, k) ==
    IF k = 0 THEN 0
    ELSE IF k > Cardinality(Dots(p)) THEN Len(p) + 1
    ELSE CHOOSE i \in Dots(p) : Cardinality({j \in Dots(p) : j < i}) = k - 1

\* The k-th dot-separated field of p (k at most the number of dots + 1).
FieldOf(p, k) == SubSeq(p, NthDot(p, k - 1) + 1, NthDot(p, k) - 1)

\* The number of leading fields of p that hold a number, at most four.
ComponentsRead(p) ==
    LET holds(k) == k <= Cardinality(Dots(p)) + 1 /\ FieldOf(p, k) # <<>>
        good == {k \in 0..4 : \A j \in 1..k : holds(j)}
    IN  CHOOSE k \in good : \A j \in good : j <= k

RECURSIVE Pow10(_)
Pow10(n) == IF n = 0 THEN 1 ELSE 10 * Pow10(n - 1)

RECURSIVE PlaceSum(_, _)
\* The sum of the digits of f[i..], each times its power of ten.
PlaceSum(f, i) == IF i > Len(f) THEN 0 ELSE DigitValue(f[i]) * Pow10(Len(f) - i) + PlaceSum(f, i + 1)

\* f without its leading zeros.
Significant(f) ==
    LET z == CHOOSE z \in 0..Len(f) : (\A i \in 1..z : f[i] = "0") /\ (z = Len(f) \/ f[z + 1] # "0")
    IN  SubSeq(f, z + 1, Len(f))

\* The decimal value of a field of digits, or -1 when it is above 65535.
FieldValue(f) ==
    IF Len(Significant(f)) > 5 THEN -1
    ELSE IF PlaceSum(Significant(f), 1) > 65535 THEN -1
    ELSE PlaceSum(Significant(f), 1)

\* The component read from field k of p is the number the field writes
\* (nothing is claimed of a number above 65535).
ReadsField(p, k, component) == FieldValue(FieldOf(p, k)) \in {-1, component}

\* C7: Version parse rule.  as_version_from_string skips leading white
\* space, takes the longest prefix of digits and dots (at most 63
\* characters), reads up to four dot-separated numbers from it, returns
\* true exactly when at least three were read, and sets build to 0 when
\* exactly three were read; what follows the prefix is discarded.
VersionParseRule ==
    vcall.op = "from_string" =>
        LET p == NumericPrefix(Stripped(vcall.str))
            n == ComponentsRead(p)
        IN  /\ vcall.result <=> n >= 3
            /\ vcall.result =>
                /\ ReadsField(p, 1, ver.major)
                /\ ReadsField(p, 2, ver.minor)
                /\ ReadsField(p, 3, ver.patch)
                /\ IF n = 4 THEN ReadsField(p, 4, ver.build) ELSE ver.build = 0
            /\ vcall.str \in {<<"7", ".", "1", ".", "0", ".", "2">>,
                              <<"7", ".", "1", ".", "0", ".", "2", "-", "1", "-", "g", "a", "b", "c", "d", "e", "f">>}
                => vcall.result /\ ver = Version(7, 1, 0, 2)
            /\ vcall.str \in {<<"7", ".", "1", ".", "0">>, <<" ", " ", "7", ".", "1", ".", "0">>}
                => vcall.result /\ ver = Version(7, 1, 0, 0)
            /\ vcall.str = <<"7", ".", "1">> => ~vcall.result

\* C7 witness: "7.1.0.2-1-gabcdef" was parsed to (7, 1, 0, 2).
VersionParseRuleWitness ==
    /\ vcall.op = "from_string"
    /\ vcall.str = <<"7", ".", "1", ".", "0", ".", "2", "-", "1", "-", "g", "a", "b", "c", "d", "e", "f">>
    /\ vcall.result
    /\ ver = Version(7, 1, 0, 2)

Components(v) == <<v.major, v.minor, v.patch, v.build>>

\* The difference of the first components of a and b that differ, 0 if none.
FirstDifference(a, b) ==
    LET d == {i \in 1..4 : Components(a)[i] # Components(b)[i]}
    IN  IF d = {} THEN 0
        ELSE LET i == CHOOSE i \in d : \A j \in d : i <= j
             IN  Components(a)[i] - Components(b)[i]

Sign(n) == IF n < 0 THEN -1 ELSE IF n > 0 THEN 1 ELSE 0

\* C8: Version ordering.  as_version_compare(a, b) is the signed
\* difference of the first component that differs, in the order major,
\* minor, patch, build, and 0 when none does; it is 0 exactly for equal
\* versions, antisymmetric and transitive.
VersionOrdering ==
    vcall.op = "compare" =>
        /\ vcall.cmp[1] = FirstDifference(ver, ver2)
        /\ vcall.cmp[2] = FirstDifference(ver2, ver)
        /\ vcall.cmp[1] = 0 <=> ver = ver2
        /\ Sign(vcall.cmp[1]) = 0 - Sign(vcall.cmp[2])
        /\ (vcall.cmp[1] < 0 /\ vcall.cmp[3] < 0) => vcall.cmp[4] < 0

\* C8 witness: the largest difference, which does not fit 16 bits, and a
\* chain a < b < c.
VersionOrderingWitness ==
    /\ vcall.op = "compare"
    /\ ver.minor = 0 /\ ver2.minor = 65535 /\ ver.major = ver2.major
    /\ vcall.cmp[1] = 0 - 65535
    /\ vcall.cmp[3] < 0
    /\ vcall.cmp[4] < 0

\* The number of decimal digits of a component.
DigitCount(n) == IF n < 10 THEN 1 ELSE IF n < 100 THEN 2 ELSE IF n < 1000 THEN 3 ELSE IF n < 10000 THEN 4 ELSE 5

\* The length of the text of a version.
TextLength(v) == DigitCount(v.major) + DigitCount(v.minor) + DigitCount(v.patch) + DigitCount(v.build) + 3

\* A field is a plain decimal: digits, and no leading zero but in "0".
PlainDecimal(f) == f # <<>> /\ (\A i \in 1..Len(f) : IsDigit(f[i])) /\ (Len(f) > 1 => f[1] # "0")

\* s is k plain decimals of at most 65535 joined by dots.
CanonicalText(s, k) ==
    /\ \A i \in 1..Len(s) : NumericChar(s[i])
    /\ Cardinality(Dots(s)) = k - 1
    /\ \A j \in 1..k : PlainDecimal(FieldOf(s, j)) /\ FieldValue(FieldOf(s, j)) # -1

\* C9: Version text round-trip.  Given a buffer that holds the text,
\* as_version_to_string writes the four components as plain decimals
\* joined by dots; the text of a parsed canonical four-component string
\* is that string, the text of a three-component one ends in ".0", and
\* parsing the text of a version gives the version back.
VersionTextRoundTrip ==
    /\ (vcall.op = "to_string" /\ vcall.size > TextLength(ver)) =>
        /\ CanonicalText(text, 4)
        /\ Len(text) = TextLength(ver)
        /\ \A j \in 1..4 : FieldValue(FieldOf(text, j)) = Components(ver)[j]
        /\ CanonicalText(vcall.str, 4) => text = vcall.str
        /\ CanonicalText(vcall.str, 3) => text = vcall.str \o <<".", "0">>
    /\ (vcall.op = "reparse" /\ vcall.size > TextLength(vcall.prev)) =>
        /\ vcall.result
        /\ ver = vcall.prev

\* C9 witness: "7.1.0.2" was parsed, written back as "7.1.0.2" and parsed
\* again to (7, 1, 0, 2).
VersionTextRoundTripWitness ==
    /\ vcall.op = "reparse"
    /\ vcall.str = <<"7", ".", "1", ".", "0", ".", "2">>
    /\ text = <<"7", ".", "1", ".", "0", ".", "2">>
    /\ vcall.size > 7
    /\ vcall.result
    /\ ver = Version(7, 1, 0, 2)

\* C11: A failed version parse leaves the Version untouched.  Whenever
\* as_version_from_string returns false, the four components of the
\* caller's version are the same as before the call.
\* Violated by the code: sscanf stores every component it converts
\* straight into the caller's version, before the count is tested.
FailedParseLeavesVersion ==
    (vcall.op = "from_string" /\ ~vcall.result) => ver = vcall.prev

====
